---- MODULE Spec2Model ----
(***************************************************************************)
(* The HTTP relay of MahdiGh404/gemini2: the round-robin credential        *)
(* rotator (getNextGenAI), the model layer (GeminiModel.generateContent,   *)
(* GeminiModel.processResponse) and the request path that leads to them    *)
(* (handleImageUpload, GenerationController.generateContent,               *)
(* errorMiddleware), and the start of the process (the checks of the API   *)
(* keys).                                                                  *)
(*                                                                         *)
(* JavaScript values are modelled as follows.  A string is a TLA+ string.  *)
(* The values null and undefined of a string-valued field are the          *)
(* sentinels Null and Undefined, which are no strings of the domains used. *)
(* An object- or array-valued field that may be absent is a record with a  *)
(* flag "defined".  A synchronous run of JavaScript between two awaits is  *)
(* one action: Node.js runs it to completion on its single thread.         *)
(***************************************************************************)
EXTENDS Integers, Sequences, FiniteSets, TLC

VARIABLES
    nextKeyIndex,   \* app.js:258  the rotation cursor, shared by all requests
    slots,          \* the requests in flight: one record per connection slot
    dispatchLog,    \* history: what each call of getNextGenAI read and returned
    NODE_ENV,       \* process.env.NODE_ENV
    apiResponse,    \* the raw upstream result handed to processResponse
    outcome,        \* what processResponse returned for apiResponse
    response,       \* the HTTP response the controller sent for outcome
    invocation,     \* a call of GeminiModel.generateContent, seen by its caller
    exchange,       \* one request followed from its arrival to its response
    server          \* the process: its credentials and how far its start has got

vars == <<nextKeyIndex, slots, dispatchLog, NODE_ENV, apiResponse, outcome,
          response, invocation, exchange, server>>

----
\* Bounds of the model.
MaxInFlight == 2    \* connection slots: requests that can be in flight together
MaxCalls == 4       \* calls of getNextGenAI over a run
MaxParts == 3       \* parts of candidate 0
MaxExtra == 1       \* candidates after candidate 0

----
\* JavaScript values.
Null == "<null>"
Undefined == "<undefined>"

\* ToBoolean of a string-valued field: null, undefined and '' are falsy.
Truthy(v) == v \notin {Null, Undefined, ""}

\* String.prototype.startsWith
StartsWith(s, prefix) ==
    /\ Len(s) >= Len(prefix)
    /\ SubSeq(s, 1, Len(prefix)) = prefix

\* A value that is no string, null or undefined: the number 7.
ANumber == "<number 7>"

\* typeof v === 'string'
IsString(v) == v \notin {Null, Undefined, ANumber}

----
\* The raw upstream result (the SDK's result.response) and its components.

\* A part of a candidate's content: {text} or {inlineData: {mimeType, data}}.
Part(isNull, hasInline, mimeType, data, text) ==
    [isNull |-> isNull,
     inlineData |-> [defined |-> hasInline, mimeType |-> mimeType, data |-> data],
     text |-> text]

TextPart(t) == Part(FALSE, FALSE, Undefined, Undefined, t)
InlinePart(m, d) == Part(FALSE, TRUE, m, d, Undefined)
NullPart == Part(TRUE, FALSE, Undefined, Undefined, Undefined)
EmptyPart == Part(FALSE, FALSE, Undefined, Undefined, Undefined)

\* A candidate: {finishReason, safetyRatings, content: {parts}}.
Candidate(isNull, finishReason, safetyRatings, hasContent, hasParts, parts) ==
    [isNull |-> isNull,
     finishReason |-> finishReason,
     safetyRatings |-> safetyRatings,
     content |-> [defined |-> hasContent,
                  parts |-> [defined |-> hasParts, items |-> parts]]]

NullCandidate == Candidate(TRUE, Undefined, Undefined, FALSE, FALSE, <<>>)

\* The response: {promptFeedback: {blockReason}, candidates}.  candidates is an
\* array: its length is the number of its items.
Response(defined, blockReason, hasCandidates, candidates) ==
    [defined |-> defined,
     blockReason |-> blockReason,
     candidates |-> [defined |-> hasCandidates, length |-> Len(candidates),
                     items |-> candidates]]

\* A response whose candidates is no array but an object with a length of its
\* own, {length: n, 0: {...}}, as the JSON of the upstream can hold.
ArrayLikeResponse(blockReason, length, candidates) ==
    [defined |-> TRUE,
     blockReason |-> blockReason,
     candidates |-> [defined |-> TRUE, length |-> length, items |-> candidates]]

NoResponse == Response(FALSE, Undefined, FALSE, <<>>)

----
\* GeminiModel.processResponse (app.js:379-501).

\* What a run of the try block ends with: a returned value or a thrown error.
Return(v) == [threw |-> FALSE, value |-> v]
Throw(message) == [threw |-> TRUE, message |-> message]

\* apiResponse.candidates?.[0]?.<field> (app.js:395, 403)
Candidate0Field(resp, field) ==
    IF ~resp.candidates.defined THEN Undefined
    ELSE IF resp.candidates.items = <<>> THEN Undefined
    ELSE IF resp.candidates.items[1].isNull THEN Undefined
    ELSE resp.candidates.items[1][field]

\* app.js:416-438: the outcome for an abnormal finish reason of candidate 0.
stoppedOutcomeSafetyAsText(candidate) ==
    IF candidate.finishReason = "RECITATION"
    THEN [type |-> "error",
          data |-> [error |-> "Content generation stopped due to potential recitation."]]
    ELSE [type |-> "text",
          data |-> [text |-> "Generation stopped unexpectedly (" \o candidate.finishReason
                             \o "). Partial content might be missing."]]

\* The recitation stop falling through to the other reasons.
stoppedOutcomeRecitationAsText(candidate) ==
    IF candidate.finishReason = "SAFETY"
    THEN [type |-> "error",
          data |-> [error |-> "Content generation stopped due to safety concerns.",
                    details |-> [safetyRatings |-> candidate.safetyRatings]]]
    ELSE [type |-> "text",
          data |-> [text |-> "Generation stopped unexpectedly (" \o candidate.finishReason
                             \o "). Partial content might be missing."]]

stoppedOutcome(candidate) ==
    IF candidate.finishReason = "SAFETY"
    THEN [type |-> "error",
          data |-> [error |-> "Content generation stopped due to safety concerns.",
                    details |-> [safetyRatings |-> candidate.safetyRatings]]]
    ELSE IF candidate.finishReason = "RECITATION"
    THEN [type |-> "error",
          data |-> [error |-> "Content generation stopped due to potential recitation."]]
    ELSE [type |-> "text",
          data |-> [text |-> "Generation stopped unexpectedly (" \o candidate.finishReason
                             \o "). Partial content might be missing."]]

\* The scan's accumulator: the three locals of app.js:446-448, and the error,
\* if any, that ended the loop.
ScanStart ==
    [threw |-> FALSE, message |-> "",
     textContent |-> Null, imageData |-> Null, imageMimeType |-> Null]

\* Mutations of the loop body, for the claims on the scan.
scanPartFirstWins(acc, part) ==
    IF part.isNull
    THEN [acc EXCEPT !.threw = TRUE,
                     !.message = "Cannot read properties of null (reading 'inlineData')"]
    ELSE IF part.inlineData.defined /\ part.inlineData.mimeType = Undefined
    THEN [acc EXCEPT !.threw = TRUE,
                     !.message = "Cannot read properties of undefined (reading 'startsWith')"]
    ELSE IF part.inlineData.defined /\ StartsWith(part.inlineData.mimeType, "image/")
    THEN IF acc.imageMimeType # Null THEN acc
         ELSE [acc EXCEPT !.imageData = part.inlineData.data,
                          !.imageMimeType = part.inlineData.mimeType]
    ELSE IF IsString(part.text)
    THEN [acc EXCEPT !.textContent =
                        (IF Truthy(acc.textContent) THEN acc.textContent ELSE "") \o part.text]
    ELSE acc

scanPartNewline(acc, part) ==
    IF part.isNull
    THEN [acc EXCEPT !.threw = TRUE,
                     !.message = "Cannot read properties of null (reading 'inlineData')"]
    ELSE IF part.inlineData.defined /\ part.inlineData.mimeType = Undefined
    THEN [acc EXCEPT !.threw = TRUE,
                     !.message = "Cannot read properties of undefined (reading 'startsWith')"]
    ELSE IF part.inlineData.defined /\ StartsWith(part.inlineData.mimeType, "image/")
    THEN [acc EXCEPT !.imageData = part.inlineData.data,
                     !.imageMimeType = part.inlineData.mimeType]
    ELSE IF IsString(part.text)
    THEN [acc EXCEPT !.textContent =
                        IF acc.textContent = Null THEN part.text
                        ELSE acc.textContent \o "\n" \o part.text]
    ELSE acc

\* app.js:451-461: one turn of the loop over the parts.  Reading a property of
\* a null part, or calling startsWith on a missing mimeType, throws a TypeError
\* (the messages are V8's).
scanPart(acc, part) ==
    IF part.isNull
    THEN [acc EXCEPT !.threw = TRUE,
                     !.message = "Cannot read properties of null (reading 'inlineData')"]
    ELSE IF part.inlineData.defined /\ part.inlineData.mimeType = Undefined
    THEN [acc EXCEPT !.threw = TRUE,
                     !.message = "Cannot read properties of undefined (reading 'startsWith')"]
    ELSE IF part.inlineData.defined /\ StartsWith(part.inlineData.mimeType, "image/")
    THEN [acc EXCEPT !.imageData = part.inlineData.data,
                     !.imageMimeType = part.inlineData.mimeType]
    ELSE IF IsString(part.text)
    THEN [acc EXCEPT !.textContent =
                        (IF Truthy(acc.textContent) THEN acc.textContent ELSE "") \o part.text]
    ELSE acc

\* app.js:451: for (const part of parts), left at the first throw.
RECURSIVE scanParts(_, _)
scanParts(acc, parts) ==
    IF parts = <<>> \/ acc.threw THEN acc
    ELSE scanParts(scanPart(acc, Head(parts)), Tail(parts))

\* app.js:464-489: the outcome after the scan.
scanOutcome(acc, parts) ==
    IF Truthy(acc.imageData)
    THEN [type |-> "image",
          data |-> [imageUrl |-> "data:" \o acc.imageMimeType \o ";base64," \o acc.imageData,
                    text |-> acc.textContent]]
    ELSE IF Truthy(acc.textContent)
    THEN [type |-> "text", data |-> [text |-> acc.textContent]]
    ELSE [type |-> "empty",
          data |-> [text |-> "Model response did not contain usable text or image data.",
                    rawParts |-> parts]]

\* The no-candidates rule without its finish-reason branch.
noCandidatesOutcomeAlwaysEmpty(resp) ==
    [type |-> "empty", data |-> [text |-> "The model did not return any content."]]

\* app.js:401-411: the outcome when there are no candidates.
noCandidatesOutcome(resp) ==
    LET finishReason == Candidate0Field(resp, "finishReason")
    IN  IF Truthy(finishReason) /\ finishReason # "STOP"
        THEN [type |-> "text",
              data |-> [text |-> "Generation stopped due to: " \o finishReason
                                 \o ". No content available."]]
        ELSE [type |-> "empty",
              data |-> [text |-> "The model did not return any content."]]

\* The classifier inspecting the last candidate.
selectCandidateLast(resp) == resp.candidates.items[Len(resp.candidates.items)]

\* app.js:413: const candidate = apiResponse.candidates[0].
selectCandidate(resp) == resp.candidates.items[1]

\* The rules for candidate 0 with the test for missing parts before the test of
\* the finish reason.
candidateOutcomePartsFirst(candidate) ==
    IF candidate.isNull
    THEN Throw("Cannot read properties of null (reading 'finishReason')")
    ELSE IF \/ ~candidate.content.defined
            \/ ~candidate.content.parts.defined
            \/ Len(candidate.content.parts.items) = 0
    THEN Return([type |-> "empty",
                 data |-> [text |->
                     "The model returned a candidate but no content parts."]])
    ELSE IF Truthy(candidate.finishReason) /\ candidate.finishReason # "STOP"
    THEN Return(stoppedOutcome(candidate))
    ELSE LET parts == candidate.content.parts.items
             acc == scanParts(ScanStart, parts)
         IN  IF acc.threw THEN Throw(acc.message)
             ELSE Return(scanOutcome(acc, parts))

\* app.js:415-489: the rules for candidate 0, in order: the finish reason, the
\* missing parts, the scan.  Reading finishReason of a null candidate throws.
candidateOutcome(candidate) ==
    IF candidate.isNull
    THEN Throw("Cannot read properties of null (reading 'finishReason')")
    ELSE IF Truthy(candidate.finishReason) /\ candidate.finishReason # "STOP"
    THEN Return(stoppedOutcome(candidate))
    ELSE IF \/ ~candidate.content.defined
            \/ ~candidate.content.parts.defined
            \/ Len(candidate.content.parts.items) = 0
    THEN Return([type |-> "empty",
                 data |-> [text |->
                     "The model returned a candidate but no content parts."]])
    ELSE LET parts == candidate.content.parts.items
             acc == scanParts(ScanStart, parts)
         IN  IF acc.threw THEN Throw(acc.message)
             ELSE Return(scanOutcome(acc, parts))

\* app.js:381-489: the try block.
processResponseTry(resp) ==
    IF ~resp.defined
    THEN Return([type |-> "error",
                 data |-> [error |-> "Received no response object from API."]])
    ELSE IF Truthy(resp.blockReason)
    THEN Return([type |-> "error",
                 data |-> [error |-> "Content generation blocked due to: " \o resp.blockReason,
                           details |-> [safetyRatings |->
                                            Candidate0Field(resp, "safetyRatings")]]])
    ELSE IF ~resp.candidates.defined \/ resp.candidates.length = 0
    THEN Return(noCandidatesOutcome(resp))
    ELSE candidateOutcome(selectCandidate(resp))

\* processResponse without its catch block: the error leaves the function.
processResponseUncaught(resp, env) ==
    LET r == processResponseTry(resp)
    IN  IF r.threw THEN [type |-> "thrown", data |-> [error |-> r.message]]
        ELSE r.value

\* app.js:379-501: the try block, and the catch block that turns a thrown error
\* into an error outcome.  env is process.env.NODE_ENV.
processResponse(resp, env) ==
    LET r == processResponseTry(resp)
    IN  IF r.threw
        THEN [type |-> "error",
              data |-> [error |-> "Failed to process the API response: " \o r.message,
                        rawResponse |-> IF env = "development"
                                        THEN [defined |-> TRUE, value |-> resp]
                                        ELSE [defined |-> FALSE]]]
        ELSE r.value

----
\* The credential rotator (app.js:254-269).

\* app.js:257: the pool, in order.  config.googleAiApiKey1 and
\* config.googleAiApiKey2 are both set, or the module throws when loaded
\* (app.js:248-252).
apiKeys == <<"key1", "key2">>

\* JavaScript's array read: an index outside the array yields undefined.
ArrayGet(arr, i) == IF i + 1 \in DOMAIN arr THEN arr[i + 1] ELSE Undefined

\* Mutations of getNextGenAI.
getNextGenAIStale(index) ==
    [selectedKey |-> ArrayGet(apiKeys, index), nextKeyIndex |-> index]

getNextGenAINoWrap(index) ==
    [selectedKey |-> ArrayGet(apiKeys, index), nextKeyIndex |-> index + 1]

getNextGenAIFirstKey(index) ==
    [selectedKey |-> ArrayGet(apiKeys, 0), nextKeyIndex |-> (index + 1) % Len(apiKeys)]

getNextGenAIAdvanceFirst(index) ==
    [selectedKey |-> ArrayGet(apiKeys, (index + 1) % Len(apiKeys)),
     nextKeyIndex |-> (index + 1) % Len(apiKeys)]

\* app.js:265-269: the key read at the cursor, and the cursor advanced.  The
\* two statements run without an await between them.
getNextGenAI(index) ==
    [selectedKey |-> ArrayGet(apiKeys, index),
     nextKeyIndex |-> (index + 1) % Len(apiKeys)]

\* The process: the two environment variables it was started with
\* (part_001:67-68), how far its start has got, and the pool once
\* models/geminiModel.js is loaded (app.js:257).
Process(pc, key1, key2, pool) ==
    [pc |-> pc, GOOGLE_AI_API_KEY1 |-> key1, GOOGLE_AI_API_KEY2 |-> key2,
     apiKeys |-> pool]

\* The process started with both keys, serving requests.
Listening == Process("listening", apiKeys[1], apiKeys[2], apiKeys)

----
\* The requests.

Slots == 1..MaxInFlight

EnvModes == {"production", "development", Undefined}

\* req.body.prompt: missing, no string, empty, whitespace only, or a usable
\* prompt.
Prompts == {Undefined, ANumber, "", "  ", " Add sunglasses "}

\* part_001:11: limits.fileSize, in bytes.
fileSizeLimit == 10 * 1024 * 1024

MiB == 1024 * 1024

\* The file part of the request as the client sends it: the form field it is
\* in, its MIME type, its size in bytes and its content.
File(fieldname, mimetype, size) ==
    [present |-> TRUE, fieldname |-> fieldname, mimetype |-> mimetype,
     size |-> size, buffer |-> "abc"]

NoFile ==
    [present |-> FALSE, fieldname |-> Undefined, mimetype |-> Undefined,
     size |-> 0, buffer |-> Null]

\* No file, an image, a file that is no image, an image of 12 MiB, and an
\* image in another field than 'image'.
Files == {NoFile,
          File("image", "image/png", 1 * MiB),
          File("image", "text/plain", 1 * MiB),
          File("image", "image/png", 12 * MiB),
          File("photo", "image/png", 1 * MiB)}

\* Buffer.prototype.toString('base64'), for the contents of the files above.
toBase64(buffer) == CASE buffer = "abc" -> "YWJj"

\* String.prototype.trim, for strings padded with spaces.
RECURSIVE Trim(_)
Trim(s) ==
    IF Len(s) > 0 /\ SubSeq(s, 1, 1) = " " THEN Trim(SubSeq(s, 2, Len(s)))
    ELSE IF Len(s) > 0 /\ SubSeq(s, Len(s), Len(s)) = " " THEN Trim(SubSeq(s, 1, Len(s) - 1))
    ELSE s

\* A connection slot.  ticket is the position of the request's call in
\* dispatchLog; afterFailure tells whether, when it took its credential, another
\* request stood answered with an upstream failure; taken and calls count the
\* credentials it took and the upstream calls it made; status is the status
\* of the HTTP response and result the way the request ended.
NoBody == [sent |-> FALSE]

IdleSlot ==
    [pc |-> "idle", ticket |-> 0, afterFailure |-> FALSE,
     taken |-> 0, calls |-> 0, status |-> 0, result |-> "none"]

\* String.prototype.includes
Includes(s, sub) ==
    \E i \in 1..(Len(s) - Len(sub) + 1) : SubSeq(s, i, i + Len(sub) - 1) = sub

\* String.prototype.toLowerCase, for the letters A-Z.
UpperCase == "ABCDEFGHIJKLMNOPQRSTUVWXYZ"
LowerCase == "abcdefghijklmnopqrstuvwxyz"

UpperChars == {SubSeq(UpperCase, i, i) : i \in 1..Len(UpperCase)}

LowerOf ==
    [c \in UpperChars |->
        LET i == CHOOSE k \in 1..Len(UpperCase) : SubSeq(UpperCase, k, k) = c
        IN  SubSeq(LowerCase, i, i)]

LowerChar(c) == IF c \in UpperChars THEN LowerOf[c] ELSE c

RECURSIVE toLowerCase(_)
toLowerCase(s) ==
    IF Len(s) = 0 THEN ""
    ELSE LowerChar(SubSeq(s, 1, 1)) \o toLowerCase(SubSeq(s, 2, Len(s)))

\* What the SDK's generateContent can reject with: an Error with a message and,
\* for gRPC-style failures, a status; response is the response the error
\* carries, if any.  nullish is "" for an object; "null" and "undefined" stand
\* for a rejection with that value.
SdkErrorWith(message, status, resp) ==
    [nullish |-> "", message |-> message, status |-> status, response |-> resp]

SdkError(message, status) == SdkErrorWith(message, status, NoResponse)

NullishError(literal) ==
    [nullish |-> literal, message |-> Undefined, status |-> Undefined,
     response |-> NoResponse]

\* The failures of the SDK: each carries a message.  The last three match more
\* than one test of the catch block, or carry a response.
SdkErrors ==
    {SdkError("Candidate was blocked: response was blocked due to SAFETY", Undefined),
     SdkError("API key not valid. Please pass a valid API key.", Undefined),
     SdkError("The caller does not have permission", "PERMISSION_DENIED"),
     SdkError("Quota exceeded for quota metric", Undefined),
     SdkError("fetch failed", Undefined),
     SdkError("response was blocked: API key not valid", "PERMISSION_DENIED"),
     SdkError("Quota exceeded for quota metric", "PERMISSION_DENIED"),
     SdkErrorWith("response was blocked", Undefined,
                  Response(TRUE, "OTHER", TRUE,
                           <<Candidate(FALSE, Undefined, "ratings", FALSE, FALSE, <<>>)>>))}

\* errorHandler.js:7-15: an ApiError; details defaults to null.
NoDetails == [isNull |-> TRUE]

ApiError(statusCode, message, details) ==
    [name |-> "ApiError", statusCode |-> statusCode, message |-> message,
     details |-> details]

\* The TypeError V8 throws when a property of null or undefined is read.
TypeError(message) == [name |-> "TypeError", message |-> message]

\* JSON.stringify of an object whose fields hold strings: a field whose value
\* is undefined is left out (res.json, generationController.js:52-65,
\* errorHandler.js:66).
Json(obj) == [f \in {g \in DOMAIN obj : obj[g] # Undefined} |-> obj[f]]

\* The catch block testing the quota before the credential.
generateContentCatchQuotaFirst(error) ==
    IF error.nullish # ""
    THEN TypeError("Cannot read properties of " \o error.nullish
                   \o " (reading 'message')")
    ELSE IF Truthy(error.message) /\ Includes(error.message, "response was blocked")
    THEN ApiError(400, "Request blocked due to safety settings: Safety settings",
                  [safetyRatings |-> "N/A"])
    ELSE IF Truthy(error.message) /\ Includes(error.message, "Quota exceeded")
    THEN ApiError(429, "API quota exceeded. Please check your usage limits.",
                  [sdkError |-> error.message])
    ELSE IF /\ Truthy(error.message)
            /\ \/ Includes(error.message, "API key not valid")
               \/ error.status = "PERMISSION_DENIED"
    THEN ApiError(401, "Authentication failed. Check your GOOGLE_AI_API_KEY.",
                  [sdkError |-> error.message])
    ELSE ApiError(502, "Error communicating with the Google AI service.",
                  [sdkError |-> error.message])

\* app.js:343-370: the catch block of GeminiModel.generateContent; what it
\* throws.  Reading error.message of null or undefined throws a TypeError, and
\* nothing catches it inside generateContent.
generateContentCatch(error) ==
    IF error.nullish # ""
    THEN TypeError("Cannot read properties of " \o error.nullish
                   \o " (reading 'message')")
    ELSE IF Truthy(error.message) /\ Includes(error.message, "response was blocked")
    THEN LET reason == IF error.response.defined THEN error.response.blockReason
                       ELSE Undefined
             ratings == IF error.response.defined
                        THEN Candidate0Field(error.response, "safetyRatings")
                        ELSE Undefined
         IN  ApiError(400,
                      "Request blocked due to safety settings: "
                          \o (IF Truthy(reason) THEN reason ELSE "Safety settings"),
                      [safetyRatings |-> IF Truthy(ratings) THEN ratings ELSE "N/A"])
    ELSE IF /\ Truthy(error.message)
            /\ \/ Includes(error.message, "API key not valid")
               \/ error.status = "PERMISSION_DENIED"
    THEN ApiError(401, "Authentication failed. Check your GOOGLE_AI_API_KEY.",
                  [sdkError |-> error.message])
    ELSE IF Truthy(error.message) /\ Includes(error.message, "Quota exceeded")
    THEN ApiError(429, "API quota exceeded. Please check your usage limits.",
                  [sdkError |-> error.message])
    ELSE ApiError(502, "Error communicating with the Google AI service.",
                  [sdkError |-> error.message])

\* errorHandler.js:21-69: the response errorMiddleware sends for an error passed
\* to next.
errorMiddleware(err, env) ==
    IF err.name = "ApiError"
    THEN [status |-> err.statusCode,
          body |-> IF err.details # NoDetails
                   THEN [error |-> err.message, details |-> Json(err.details)]
                   ELSE [error |-> err.message,
                         message |-> IF env = "production"
                                     THEN "See error field for details."
                                     ELSE err.message]]
    ELSE [status |-> 500,
          body |-> [error |-> "Internal Server Error",
                    message |-> IF env = "production"
                                THEN "An unexpected error occurred."
                                ELSE err.message]]

\* The presenter answering every error outcome with 400.
presentStatusErrors400(modelResponse) ==
    IF modelResponse.type \in {"image", "text", "empty"} THEN 200 ELSE 400

\* generationController.js:61: the status the controller answers an outcome
\* with.
presentStatus(modelResponse) ==
    IF modelResponse.type \in {"image", "text", "empty"} THEN 200
    ELSE IF modelResponse.type = "error"
    THEN IF Includes(toLowerCase(modelResponse.data.error), "blocked") THEN 400 ELSE 500
    ELSE 500

\* generationController.js:44-46: outside production the controller writes the
\* outcome's type into the outcome's data.
withDebugField(modelResponse, env) ==
    IF env # "production"
    THEN [modelResponse EXCEPT !.data =
            [f \in DOMAIN modelResponse.data \cup {"_raw_model_response_type"} |->
                IF f = "_raw_model_response_type" THEN modelResponse.type
                ELSE modelResponse.data[f]]]
    ELSE modelResponse

\* The controller sending an error outcome without its safety ratings.
sendOutcomeNoRatings(modelResponse, env) ==
    IF modelResponse.type \in {"image", "text"}
    THEN [status |-> 200, body |-> Json(modelResponse.data)]
    ELSE IF modelResponse.type = "empty"
    THEN [status |-> 200, body |-> [message |-> modelResponse.data.text]]
    ELSE [status |-> presentStatus(modelResponse),
          body |-> [error |-> modelResponse.data.error,
                    details |-> Json([safetyRatings |-> Undefined])]]

\* generationController.js:48-71: the response the controller sends for the
\* outcome.  An outcome of another type throws an ApiError 500, which the catch
\* block passes to errorMiddleware.
sendOutcome(modelResponse, env) ==
    IF modelResponse.type \in {"image", "text"}
    THEN [status |-> 200, body |-> Json(modelResponse.data)]
    ELSE IF modelResponse.type = "empty"
    THEN [status |-> 200,
          body |-> [message |-> IF Truthy(modelResponse.data.text)
                                THEN modelResponse.data.text
                                ELSE "No content generated."]]
    ELSE IF modelResponse.type = "error"
    THEN [status |-> presentStatus(modelResponse),
          body |-> LET error == IF Truthy(modelResponse.data.error)
                                THEN modelResponse.data.error
                                ELSE "An error occurred while processing the model response."
                   IN  IF "details" \in DOMAIN modelResponse.data
                       THEN [error |-> error, details |-> Json(modelResponse.data.details)]
                       ELSE [error |-> error]]
    ELSE errorMiddleware(
             ApiError(500, "Received an unexpected response format from the AI model.",
                      NoDetails), env)

\* generationController.js:40-71: the controller after the await.
presentOutcome(modelResponse, env) == sendOutcome(withDebugField(modelResponse, env), env)

\* The upstream results the requests of the model receive.
SampleResponses ==
    {Response(TRUE, Undefined, TRUE,
              <<Candidate(FALSE, "STOP", Undefined, TRUE, TRUE, <<TextPart("A")>>)>>),
     Response(TRUE, Undefined, TRUE,
              <<Candidate(FALSE, "STOP", Undefined, TRUE, TRUE,
                          <<TextPart("A"), InlinePart("image/png", "X")>>)>>),
     Response(TRUE, Undefined, TRUE,
              <<Candidate(FALSE, "SAFETY", "ratings", TRUE, TRUE, <<TextPart("A")>>)>>),
     Response(TRUE, "SAFETY", FALSE, <<>>),
     Response(TRUE, Undefined, TRUE, <<>>)}

----
\* The handlers.  Each action is one synchronous run of the event loop.  A
\* request's prompt and file are chosen when the handler that reads them runs;
\* the slots keep the status of the response, and the response in full is
\* followed for one request at a time further below.

OutsideClassifier ==
    UNCHANGED <<apiResponse, outcome, response, invocation, exchange, server>>

\* The request arrives; multer starts to read its body.
Receive(r) ==
    /\ slots[r].pc = "idle"
    /\ Len(dispatchLog) + Cardinality({s \in Slots : slots[s].pc = "upload"}) < MaxCalls
    /\ slots' = [slots EXCEPT ![r] = [IdleSlot EXCEPT !.pc = "upload"]]
    /\ UNCHANGED <<nextKeyIndex, dispatchLog, NODE_ENV>>
    /\ OutsideClassifier

Accepted == [rejected |-> FALSE]
Rejected(error) == [rejected |-> TRUE, error |-> error]

\* handleImageUpload without the size limit of part_001:11.
handleImageUploadNoLimit(file) ==
    IF ~file.present THEN Accepted
    ELSE IF file.fieldname # "image"
    THEN Rejected(ApiError(400, "Unexpected file field: '" \o file.fieldname
                                \o "'. Please use the 'image' field.", NoDetails))
    ELSE IF ~StartsWith(file.mimetype, "image/")
    THEN Rejected(ApiError(400, "Invalid file type. Only image files are allowed.",
                           [receivedType |-> file.mimetype]))
    ELSE Accepted

\* part_001:8-55: upload.single('image') and the callback of handleImageUpload;
\* the error, if any, passed to next.  multer refuses a file in another field
\* (LIMIT_UNEXPECTED_FILE), then asks fileFilter, then reads the file up to
\* limits.fileSize (LIMIT_FILE_SIZE).
handleImageUpload(file) ==
    IF ~file.present THEN Accepted
    ELSE IF file.fieldname # "image"
    THEN Rejected(ApiError(400, "Unexpected file field: '" \o file.fieldname
                                \o "'. Please use the 'image' field.", NoDetails))
    ELSE IF ~StartsWith(file.mimetype, "image/")
    THEN Rejected(ApiError(400, "Invalid file type. Only image files are allowed.",
                           [receivedType |-> file.mimetype]))
    ELSE IF file.size > fileSizeLimit
    THEN Rejected(ApiError(400, "File size limit exceeded (max 10MB).", NoDetails))
    ELSE Accepted

\* part_001:52-53: next() is called without an error.
UploadAccepted(file) == ~handleImageUpload(file).rejected

\* The validation without the trim.
PromptValidNoTrim(prompt) == Truthy(prompt) /\ IsString(prompt)

\* generationController.js:19: the prompt passes the validation.
PromptValid(prompt) == Truthy(prompt) /\ IsString(prompt) /\ Trim(prompt) # ""

\* The HTTP response res is sent for the request of the slot.
Answered(slot, result, res) ==
    [slot EXCEPT !.pc = "responded", !.ticket = 0, !.afterFailure = FALSE,
                 !.status = res.status, !.result = result]

\* part_001:27-55, errorHandler.js:21-69: multer rejects the file, the error
\* goes to next and errorMiddleware answers; the controller does not run.
UploadRejected(r, file) ==
    /\ slots[r].pc = "upload"
    /\ ~UploadAccepted(file)
    /\ slots' = [slots EXCEPT ![r] =
           Answered(slots[r], "upload-rejected",
                    errorMiddleware(handleImageUpload(file).error, NODE_ENV))]
    /\ UNCHANGED <<nextKeyIndex, dispatchLog, NODE_ENV>>
    /\ OutsideClassifier

\* generationController.js:13-22, 73-80: the controller throws on the prompt,
\* and errorMiddleware answers.
PromptRejected(r, prompt, file) ==
    /\ slots[r].pc = "upload"
    /\ UploadAccepted(file)
    /\ ~PromptValid(prompt)
    /\ slots' = [slots EXCEPT ![r] =
           Answered(slots[r], "prompt-rejected",
                    errorMiddleware(
                        ApiError(400, "Text prompt (prompt) is required and cannot be empty.",
                                 NoDetails),
                        NODE_ENV))]
    /\ UNCHANGED <<nextKeyIndex, dispatchLog, NODE_ENV>>
    /\ OutsideClassifier

\* app.js:290-336: GeminiModel.generateContent up to the await: a credential
\* is taken, the parts are built, and the upstream is called unless the MIME
\* check throws.  The ApiError it throws (message 'Invalid image MIME type
\* provided.', no status, no response) is caught by the catch block of
\* app.js:343 like any other error.
generateContentStart(index, prompt, imageBuffer, imageMimeType) ==
    LET withImage == Truthy(imageBuffer) /\ Truthy(imageMimeType)
    IN  IF withImage /\ ~StartsWith(imageMimeType, "image/")
        THEN [genAI |-> getNextGenAI(index),
              threw |-> TRUE,
              error |-> SdkError("Invalid image MIME type provided.", Undefined),
              messageParts |-> <<[text |-> prompt]>>]
        ELSE [genAI |-> getNextGenAI(index),
              threw |-> FALSE,
              error |-> SdkError(Undefined, Undefined),
              messageParts |->
                 IF withImage
                 THEN <<[text |-> prompt],
                        [inlineData |-> [data |-> toBase64(imageBuffer),
                                         mimeType |-> imageMimeType]]>>
                 ELSE <<[text |-> prompt]>>]

\* The retry a fallback to the next credential would make.
afterUpstreamErrorRetry(slot, error) == [slot EXCEPT !.pc = "upload"]

\* app.js:343-370, generationController.js:73-80, errorHandler.js:46-66: the
\* upstream call failed; what the catch block throws reaches the controller,
\* is passed to next and answered by errorMiddleware.  The call is over: its
\* position in dispatchLog is no longer read.
afterUpstreamError(slot, error) ==
    Answered(slot, "api-error", errorMiddleware(generateContentCatch(error), NODE_ENV))

\* generationController.js:34-38 and app.js:290-336: the controller calls
\* GeminiModel.generateContent with the trimmed prompt and the file, if any;
\* the request is suspended at the await of app.js:336.
Dispatch(r, prompt, file) ==
    /\ slots[r].pc = "upload"
    /\ UploadAccepted(file)
    /\ PromptValid(prompt)
    /\ LET started == generateContentStart(nextKeyIndex, Trim(prompt),
                                           IF file.present THEN file.buffer ELSE Null,
                                           IF file.present THEN file.mimetype ELSE Null)
           taken == [slots[r] EXCEPT
                        !.ticket = Len(dispatchLog) + 1,
                        !.afterFailure = \E s \in Slots : /\ slots[s].pc = "responded"
                                                          /\ slots[s].result = "api-error",
                        !.taken = @ + 1]
       IN  /\ nextKeyIndex' = started.genAI.nextKeyIndex
           /\ dispatchLog' = Append(dispatchLog,
                                    [seen |-> nextKeyIndex, key |-> started.genAI.selectedKey])
           /\ slots' = [slots EXCEPT ![r] =
                  IF started.threw
                  THEN afterUpstreamError(taken, started.error)
                  ELSE [taken EXCEPT !.pc = "awaiting", !.calls = @ + 1]]
    /\ UNCHANGED NODE_ENV
    /\ OutsideClassifier

\* app.js:336-342, generationController.js:40-71: the upstream answers; the
\* result is classified and the controller sends the response.
UpstreamResolve(r, raw) ==
    /\ slots[r].pc = "awaiting"
    /\ LET modelResponse == processResponse(raw, NODE_ENV)
       IN  slots' = [slots EXCEPT ![r] =
               Answered(slots[r], modelResponse.type,
                        presentOutcome(modelResponse, NODE_ENV))]
    /\ UNCHANGED <<nextKeyIndex, dispatchLog, NODE_ENV>>
    /\ OutsideClassifier

\* app.js:343-370: the upstream call rejects.
UpstreamReject(r, error) ==
    /\ slots[r].pc = "awaiting"
    /\ slots' = [slots EXCEPT ![r] = afterUpstreamError(slots[r], error)]
    /\ UNCHANGED <<nextKeyIndex, dispatchLog, NODE_ENV>>
    /\ OutsideClassifier

\* The response is sent; the request and its outcome are discarded.
Complete(r) ==
    /\ slots[r].pc = "responded"
    /\ slots' = [slots EXCEPT ![r] = IdleSlot]
    /\ UNCHANGED <<nextKeyIndex, dispatchLog, NODE_ENV>>
    /\ OutsideClassifier

NoOutcome == [type |-> "none", data |-> [text |-> Undefined]]

\* Nothing sent yet.
NoHttpResponse == [status |-> 0, body |-> NoBody]

\* No call of generateContent under observation.
NoInvocation ==
    [pc |-> "none", prompt |-> Undefined, imageBuffer |-> Null, imageMimeType |-> Null,
     messageParts |-> <<>>, upstreamCalls |-> 0, value |-> NoOutcome,
     error |-> TypeError("")]

\* No request under observation.
NoExchange ==
    [pc |-> "none", prompt |-> Undefined, file |-> NoFile, cursorAtArrival |-> 0,
     result |-> "none", messageParts |-> <<>>, taken |-> 0, calls |-> 0,
     raw |-> NoResponse, error |-> SdkError(Undefined, Undefined),
     status |-> 0, body |-> NoBody, sends |-> 0, nexts |-> 0, responses |-> 0]

Init ==
    /\ nextKeyIndex = 0
    /\ slots = [r \in Slots |-> IdleSlot]
    /\ dispatchLog = <<>>
    /\ NODE_ENV \in EnvModes
    /\ apiResponse = NoResponse
    /\ outcome = NoOutcome
    /\ response = NoHttpResponse
    /\ invocation = NoInvocation
    /\ exchange = NoExchange
    /\ server = Listening

Next ==
    \E r \in Slots :
        \/ Receive(r)
        \/ \E file \in Files : UploadRejected(r, file)
        \/ \E prompt \in Prompts, file \in Files : PromptRejected(r, prompt, file)
        \/ \E prompt \in Prompts, file \in Files : Dispatch(r, prompt, file)
        \/ \E raw \in SampleResponses : UpstreamResolve(r, raw)
        \/ \E error \in SdkErrors : UpstreamReject(r, error)
        \/ Complete(r)

Spec == Init /\ [][Next]_vars

\* The steps the program takes on its own for the request of slot r: the
\* callbacks of handleImageUpload and the controller, and the sending of the
\* response.
Handlers(r) ==
    \/ \E file \in Files : UploadRejected(r, file)
    \/ \E prompt \in Prompts, file \in Files : PromptRejected(r, prompt, file)
    \/ \E prompt \in Prompts, file \in Files : Dispatch(r, prompt, file)
    \/ Complete(r)

\* The event loop runs every callback that is ready.  Whether a client sends a
\* request and whether the upstream answers is not in the program's hands:
\* app.js:323-336 passes no timeout and no abort signal to the SDK, sets no
\* timer of its own, and config.requestTimeout (part_001:79) is read nowhere.
LiveSpec == Spec /\ \A r \in Slots : WF_vars(Handlers(r))

----
\* The classifier on its own: processResponse applied to every raw upstream
\* result of a bounded family.

Texts == {"A", "B", ""}

\* Parts: text, images (one with no bytes), a binary part that is no image, an
\* inlineData without mimeType, null, and an object with neither field (the
\* SDK's Part is a union: a part holds text or inlineData, not both).
PartKinds ==
    {TextPart(t) : t \in Texts}
    \cup {InlinePart("image/png", "X"), InlinePart("image/jpeg", "Y"),
          InlinePart("image/png", ""), InlinePart("application/pdf", "Z"),
          InlinePart(Undefined, "X"), NullPart, EmptyPart}

PartSeqs(n) == UNION {[1..k -> PartKinds] : k \in 0..n}

\* Finish reasons: absent, empty, normal, the two named stops, the length limit
\* and a value the code does not know.
FinishReasons == {Undefined, "", "STOP", "SAFETY", "RECITATION", "MAX_TOKENS", "OTHER"}

BlockReasons == {Undefined, "", "SAFETY"}

SafetyRatings == {Undefined, "ratings"}

\* Candidates after candidate 0.
ExtraKinds ==
    {Candidate(FALSE, "STOP", Undefined, TRUE, TRUE, <<TextPart("B")>>),
     Candidate(FALSE, "STOP", Undefined, TRUE, TRUE, <<InlinePart("image/jpeg", "Y")>>)}

ExtraSeqs == UNION {[1..k -> ExtraKinds] : k \in 0..MaxExtra}

SampleParts ==
    {<<>>, <<TextPart("A")>>, <<InlinePart("image/png", "X")>>, <<NullPart>>,
     <<TextPart("A"), InlinePart("image/png", "X"), TextPart("B")>>}

\* Candidate 0 with every sequence of parts and every finish reason.
RawScanned ==
    {Response(TRUE, Undefined, TRUE,
              <<Candidate(FALSE, fr, "ratings", TRUE, TRUE, parts)>>) :
        fr \in FinishReasons, parts \in PartSeqs(MaxParts)}

\* Block reasons, safety ratings and further candidates around candidate 0.
RawSurrounded ==
    {Response(TRUE, br, TRUE,
              <<Candidate(FALSE, c[1], c[2], TRUE, TRUE, c[3])>> \o extra) :
        br \in BlockReasons,
        c \in FinishReasons \X SafetyRatings \X SampleParts,
        extra \in ExtraSeqs}

\* Missing pieces: no response, no candidates, candidates of length 0 that
\* hold an item all the same, a null candidate, no content, no parts.
RawPartial ==
    {NoResponse}
    \cup {Response(TRUE, br, FALSE, <<>>) : br \in BlockReasons}
    \cup {Response(TRUE, br, TRUE, <<>>) : br \in BlockReasons}
    \cup {ArrayLikeResponse(br, 0, <<Candidate(FALSE, fr, Undefined, FALSE, FALSE, <<>>)>>) :
            br \in BlockReasons, fr \in FinishReasons}
    \cup {Response(TRUE, br, TRUE, <<NullCandidate>> \o extra) :
            br \in BlockReasons, extra \in ExtraSeqs}
    \cup {Response(TRUE, Undefined, TRUE,
                   <<Candidate(FALSE, fr, Undefined, FALSE, FALSE, <<>>)>> \o extra) :
            fr \in FinishReasons, extra \in ExtraSeqs}
    \cup {Response(TRUE, Undefined, TRUE,
                   <<Candidate(FALSE, fr, Undefined, TRUE, FALSE, <<>>)>> \o extra) :
            fr \in FinishReasons, extra \in ExtraSeqs}

RawResults == RawScanned \cup RawSurrounded \cup RawPartial

InitClassifier ==
    /\ nextKeyIndex = 0
    /\ slots = [r \in Slots |-> IdleSlot]
    /\ dispatchLog = <<>>
    /\ NODE_ENV \in EnvModes
    /\ apiResponse \in RawResults
    /\ outcome = NoOutcome
    /\ response = NoHttpResponse
    /\ invocation = NoInvocation
    /\ exchange = NoExchange
    /\ server = Listening

\* app.js:339-342: processResponse is called with the upstream's response.
Classify ==
    /\ outcome = NoOutcome
    /\ outcome' = processResponse(apiResponse, NODE_ENV)
    /\ UNCHANGED <<nextKeyIndex, slots, dispatchLog, NODE_ENV, apiResponse,
                   response, invocation, exchange, server>>

\* generationController.js:40-71: the controller receives the outcome, writes
\* the debug field into it outside production, and sends the response.
Present ==
    /\ outcome # NoOutcome
    /\ response = NoHttpResponse
    /\ outcome' = withDebugField(outcome, NODE_ENV)
    /\ response' = presentOutcome(outcome, NODE_ENV)
    /\ UNCHANGED <<nextKeyIndex, slots, dispatchLog, NODE_ENV, apiResponse,
                   invocation, exchange, server>>

NextClassifier == Classify \/ Present

ClassifierSpec == InitClassifier /\ [][NextClassifier]_vars

----
\* GeminiModel.generateContent on its own: the function is called once with
\* arguments of a bounded family, and the upstream call, when it is made,
\* resolves or rejects with any value.

\* The values the upstream call can throw or reject with: the SDK's failures,
\* an error without a message, an error with a status and an empty message,
\* null and undefined.
ThrownValues ==
    SdkErrors
    \cup {SdkError(Undefined, Undefined), SdkError("", "PERMISSION_DENIED"),
          NullishError("null"), NullishError("undefined")}

\* imageBuffer and imageMimeType: absent, or a buffer with the MIME type of an
\* image or of something else.
InvokerBuffers == {Null, "abc"}
InvokerMimeTypes == {Null, "image/png", "text/plain", "application/pdf"}

Invocation(prompt, imageBuffer, imageMimeType) ==
    [NoInvocation EXCEPT !.pc = "called", !.prompt = prompt,
                         !.imageBuffer = imageBuffer,
                         !.imageMimeType = imageMimeType]

InitInvoker ==
    /\ nextKeyIndex \in 0..(Len(apiKeys) - 1)
    /\ slots = [r \in Slots |-> IdleSlot]
    /\ dispatchLog = <<>>
    /\ NODE_ENV \in EnvModes
    /\ apiResponse = NoResponse
    /\ outcome = NoOutcome
    /\ response = NoHttpResponse
    /\ invocation \in {Invocation("Add sunglasses", b, m) :
                          b \in InvokerBuffers, m \in InvokerMimeTypes}
    /\ exchange = NoExchange
    /\ server = Listening

OutsideInvoker ==
    UNCHANGED <<slots, NODE_ENV, apiResponse, outcome, response, exchange, server>>

\* app.js:290-336 and, when the MIME check throws, 343-370: the run of
\* generateContent up to the await, or up to its rejection.
InvokeStart ==
    /\ invocation.pc = "called"
    /\ LET started == generateContentStart(nextKeyIndex, invocation.prompt,
                                           invocation.imageBuffer,
                                           invocation.imageMimeType)
       IN  /\ nextKeyIndex' = started.genAI.nextKeyIndex
           /\ dispatchLog' = Append(dispatchLog,
                                    [seen |-> nextKeyIndex, key |-> started.genAI.selectedKey])
           /\ invocation' =
                  IF started.threw
                  THEN [invocation EXCEPT !.pc = "rejected",
                                          !.messageParts = started.messageParts,
                                          !.error = generateContentCatch(started.error)]
                  ELSE [invocation EXCEPT !.pc = "awaiting",
                                          !.messageParts = started.messageParts,
                                          !.upstreamCalls = @ + 1]
    /\ OutsideInvoker

\* app.js:336-342: the upstream call resolves; generateContent returns the
\* outcome of processResponse.
InvokeResolve(raw) ==
    /\ invocation.pc = "awaiting"
    /\ invocation' = [invocation EXCEPT !.pc = "returned",
                                        !.value = processResponse(raw, NODE_ENV)]
    /\ UNCHANGED <<nextKeyIndex, dispatchLog>>
    /\ OutsideInvoker

\* app.js:343-370: the upstream call rejects; generateContent rejects with
\* what its catch block throws.
InvokeReject(error) ==
    /\ invocation.pc = "awaiting"
    /\ invocation' = [invocation EXCEPT !.pc = "rejected",
                                        !.error = generateContentCatch(error)]
    /\ UNCHANGED <<nextKeyIndex, dispatchLog>>
    /\ OutsideInvoker

NextInvoker ==
    \/ InvokeStart
    \/ \E raw \in SampleResponses : InvokeResolve(raw)
    \/ \E error \in ThrownValues : InvokeReject(error)

InvokerSpec == InitInvoker /\ [][NextInvoker]_vars

----
\* The request path for one request, with the request and the response in
\* full: POST /api/generate through handleImageUpload, the controller,
\* generateContent and errorMiddleware (part_000:11-15).

\* req.body.prompt: the prompts above, and one without padding.
RequestPrompts == Prompts \cup {"Add sunglasses"}

InitRequest ==
    /\ nextKeyIndex \in 0..(Len(apiKeys) - 1)
    /\ slots = [r \in Slots |-> IdleSlot]
    /\ dispatchLog = <<>>
    /\ NODE_ENV \in EnvModes
    /\ apiResponse = NoResponse
    /\ outcome = NoOutcome
    /\ response = NoHttpResponse
    /\ invocation = NoInvocation
    /\ exchange \in {[NoExchange EXCEPT !.pc = "received", !.prompt = prompt,
                                        !.file = file,
                                        !.cursorAtArrival = nextKeyIndex] :
                         prompt \in RequestPrompts, file \in Files}
    /\ server = Listening

OutsideRequest ==
    UNCHANGED <<slots, NODE_ENV, apiResponse, outcome, response, invocation, server>>

\* The response res is sent for the request.
Responded(x, result, res) ==
    [x EXCEPT !.pc = "responded", !.result = result,
              !.status = res.status, !.body = res.body]

\* The switch with the break of the error case missing: the error outcome is
\* sent and then falls through to the default case, which throws.
controllerEndFallThrough(modelResponse) ==
    IF modelResponse.type \in {"image", "text", "empty"} THEN [json |-> 1, next |-> 0]
    ELSE IF modelResponse.type = "error" THEN [json |-> 1, next |-> 1]
    ELSE [json |-> 0, next |-> 1]

\* generationController.js:48-80: how the controller ends for an outcome: each
\* case of the switch calls res.json once and breaks; the default case throws,
\* and the catch block calls next(error) once.
controllerEnd(modelResponse) ==
    IF modelResponse.type \in {"image", "text", "empty", "error"}
    THEN [json |-> 1, next |-> 0]
    ELSE [json |-> 0, next |-> 1]

\* An error passed to next once: return next(...) in handleImageUpload
\* (part_001:37-50), next(error) in the controller's catch block
\* (generationController.js:79).
PassedToNext == [json |-> 0, next |-> 1]

\* The calls of res.json by the controller and of next(error) are counted;
\* errorMiddleware sends one response for each error passed to it
\* (errorHandler.js:66) and does not call next.
Ended(x, end) ==
    [x EXCEPT !.sends = @ + end.json, !.nexts = @ + end.next,
              !.responses = @ + end.json + end.next]

\* part_001:27-55, generationController.js:13-38, app.js:290-336: the upload
\* is read; on an error next(error) leads to errorMiddleware and the controller
\* does not run.  Otherwise the controller validates the prompt and calls
\* generateContent with the trimmed prompt, which runs up to its await.
HandleRequest ==
    /\ exchange.pc = "received"
    /\ LET upload == handleImageUpload(exchange.file)
           file == exchange.file
           started == generateContentStart(nextKeyIndex, Trim(exchange.prompt),
                                           IF file.present THEN file.buffer ELSE Null,
                                           IF file.present THEN file.mimetype ELSE Null)
           core == [exchange EXCEPT !.taken = @ + 1,
                                    !.messageParts = started.messageParts]
       IN  IF upload.rejected
           THEN /\ exchange' = Ended(Responded(exchange, "upload-rejected",
                                               errorMiddleware(upload.error, NODE_ENV)),
                                     PassedToNext)
                /\ UNCHANGED <<nextKeyIndex, dispatchLog>>
           ELSE IF ~PromptValid(exchange.prompt)
           THEN /\ exchange' =
                       Ended(Responded(exchange, "prompt-rejected",
                                 errorMiddleware(
                                     ApiError(400,
                                         "Text prompt (prompt) is required and cannot be empty.",
                                         NoDetails),
                                     NODE_ENV)),
                             PassedToNext)
                /\ UNCHANGED <<nextKeyIndex, dispatchLog>>
           ELSE /\ nextKeyIndex' = started.genAI.nextKeyIndex
                /\ dispatchLog' =
                       Append(dispatchLog,
                              [seen |-> nextKeyIndex, key |-> started.genAI.selectedKey])
                /\ exchange' =
                       IF started.threw
                       THEN Ended(Responded(core, "api-error",
                                            errorMiddleware(
                                                generateContentCatch(started.error),
                                                NODE_ENV)),
                                  PassedToNext)
                       ELSE [core EXCEPT !.pc = "awaiting", !.calls = @ + 1]
    /\ OutsideRequest

\* app.js:336-342, generationController.js:40-71: the upstream answers; the
\* result is classified and the controller sends the response.
ExchangeResolve(raw) ==
    /\ exchange.pc = "awaiting"
    /\ LET modelResponse == processResponse(raw, NODE_ENV)
       IN  exchange' = Ended(Responded([exchange EXCEPT !.raw = raw], modelResponse.type,
                                       presentOutcome(modelResponse, NODE_ENV)),
                             controllerEnd(modelResponse))
    /\ UNCHANGED <<nextKeyIndex, dispatchLog>>
    /\ OutsideRequest

\* app.js:343-370, generationController.js:73-80, errorHandler.js:21-69: the
\* upstream call rejects; what the catch block throws is passed to next and
\* answered by errorMiddleware.
ExchangeReject(error) ==
    /\ exchange.pc = "awaiting"
    /\ exchange' = Ended(Responded([exchange EXCEPT !.error = error], "api-error",
                                   errorMiddleware(generateContentCatch(error), NODE_ENV)),
                         PassedToNext)
    /\ UNCHANGED <<nextKeyIndex, dispatchLog>>
    /\ OutsideRequest

NextRequest ==
    \/ HandleRequest
    \/ \E raw \in SampleResponses : ExchangeResolve(raw)
    \/ \E error \in SdkErrors : ExchangeReject(error)

RequestSpec == InitRequest /\ [][NextRequest]_vars

----
\* The start of the process.  server.js requires app.js (part_003:548);
\* app.js loads the configuration (app.js:3) and then the routes (app.js:4),
\* which load the controller and with it models/geminiModel.js
\* (app.js:242-258), before its own check of the key runs (app.js:8-16).

\* process.env.GOOGLE_AI_API_KEY1 and GOOGLE_AI_API_KEY2: unset, empty, or one
\* of two keys.
KeyValues1 == {Undefined, "", "key1", "keyA"}
KeyValues2 == {Undefined, "", "key2", "keyB"}

InitStartup ==
    /\ nextKeyIndex = 0
    /\ slots = [r \in Slots |-> IdleSlot]
    /\ dispatchLog = <<>>
    /\ NODE_ENV \in EnvModes
    /\ apiResponse = NoResponse
    /\ outcome = NoOutcome
    /\ response = NoHttpResponse
    /\ invocation = NoInvocation
    /\ exchange = NoExchange
    /\ server \in {Process("loading", k1, k2, <<>>) :
                      k1 \in KeyValues1, k2 \in KeyValues2}

OutsideStartup ==
    UNCHANGED <<slots, NODE_ENV, apiResponse, outcome, response, invocation, exchange>>

\* app.js:248-258: models/geminiModel.js is loaded.  Unless both keys are set
\* it throws an Error, which nothing catches: the process ends.  Otherwise the
\* pool and the cursor are set.
LoadModel ==
    /\ server.pc = "loading"
    /\ server' =
           IF ~Truthy(server.GOOGLE_AI_API_KEY1) \/ ~Truthy(server.GOOGLE_AI_API_KEY2)
           THEN [server EXCEPT !.pc = "crashed"]
           ELSE [server EXCEPT !.pc = "model-loaded",
                               !.apiKeys = <<server.GOOGLE_AI_API_KEY1,
                                             server.GOOGLE_AI_API_KEY2>>]
    /\ nextKeyIndex' = 0
    /\ UNCHANGED dispatchLog
    /\ OutsideStartup

\* app.js:8-16, part_003:554: the check of the first key, process.exit(1) when
\* it is missing, and otherwise the server listening.
CheckApiKey ==
    /\ server.pc = "model-loaded"
    /\ server' = IF ~Truthy(server.GOOGLE_AI_API_KEY1)
                 THEN [server EXCEPT !.pc = "exited"]
                 ELSE [server EXCEPT !.pc = "listening"]
    /\ UNCHANGED <<nextKeyIndex, dispatchLog>>
    /\ OutsideStartup

\* app.js:295, 265-269: a request reaches generateContent, which takes the
\* next key of the pool.  The rest of the request is followed in Spec and
\* RequestSpec.
ServeCall ==
    /\ server.pc = "listening"
    /\ Len(dispatchLog) < MaxCalls
    /\ dispatchLog' = Append(dispatchLog,
                             [seen |-> nextKeyIndex,
                              key |-> ArrayGet(server.apiKeys, nextKeyIndex)])
    /\ nextKeyIndex' = (nextKeyIndex + 1) % Len(server.apiKeys)
    /\ UNCHANGED server
    /\ OutsideStartup

NextStartup == LoadModel \/ CheckApiKey \/ ServeCall

StartupSpec == InitStartup /\ [][NextStartup]_vars

----
\* The rotation claims, checked under Spec.

N == Len(apiKeys)

Pool == {apiKeys[i] : i \in 1..N}

InFlight == {r \in Slots : slots[r].pc = "awaiting"}

\* C1: the read-then-advance of the cursor is one atomic step.  Each call of
\* getNextGenAI reads the index the call before it left (no lost update, no
\* skipped index), two calls in flight together read different indices unless
\* their positions differ by a multiple of N, and after K calls the cursor is
\* (initial + K) mod N.
AtomicReadAdvance ==
    /\ nextKeyIndex = (0 + Len(dispatchLog)) % N
    /\ Len(dispatchLog) > 0 => dispatchLog[1].seen = 0
    /\ \A j \in 1..(Len(dispatchLog) - 1) :
            dispatchLog[j + 1].seen = (dispatchLog[j].seen + 1) % N
    /\ \A r1, r2 \in InFlight :
            (slots[r1].ticket - slots[r2].ticket) % N # 0
                => dispatchLog[slots[r1].ticket].seen # dispatchLog[slots[r2].ticket].seen

\* Two calls are in flight together, dispatched one right after the other.
TwoCallsInFlight ==
    \E r1, r2 \in InFlight :
        /\ slots[r2].ticket = slots[r1].ticket + 1
        /\ dispatchLog[slots[r1].ticket].seen # dispatchLog[slots[r2].ticket].seen

\* C2: the cursor is always an index 0..N-1 of the pool, and every credential
\* handed to a call is an element of the pool.
CursorInRange ==
    /\ nextKeyIndex \in 0..(N - 1)
    /\ \A j \in 1..Len(dispatchLog) :
            /\ dispatchLog[j].seen \in 0..(N - 1)
            /\ dispatchLog[j].key \in Pool

\* The cursor has wrapped around while requests were rejected and calls failed.
CursorWrapped ==
    /\ Len(dispatchLog) > N
    /\ nextKeyIndex \in 0..(N - 1)
    /\ \E r \in Slots : slots[r].result \in {"prompt-rejected", "upload-rejected"}
    /\ \E r \in Slots : slots[r].result = "api-error"

\* C3: the k-th call (k = 0, 1, 2, ...) uses credential k mod N; with the pool
\* of two keys the calls alternate key1, key2, key1, key2, ... whatever became
\* of the calls before.
KthCallUsesKthKey ==
    \A j \in 1..Len(dispatchLog) :
        /\ dispatchLog[j].key = apiKeys[((j - 1) % N) + 1]
        /\ dispatchLog[j].key = IF j % 2 = 1 THEN "key1" ELSE "key2"

\* The third call or a later one took its key after a call had failed.
CallAfterFailure ==
    \E r \in InFlight :
        /\ slots[r].afterFailure
        /\ slots[r].ticket >= 3
        /\ dispatchLog[slots[r].ticket].key = apiKeys[((slots[r].ticket - 1) % N) + 1]

Uses(key) == Cardinality({j \in 1..Len(dispatchLog) : dispatchLog[j].key = key})

\* C4: after M calls every pool entry has been returned at least floor(M/N)
\* and at most ceil(M/N) times, so two entries' counts differ by at most 1.
RotationFair ==
    LET M == Len(dispatchLog)
    IN  /\ \A i \in 1..N : /\ Uses(apiKeys[i]) >= M \div N
                           /\ Uses(apiKeys[i]) <= (M + N - 1) \div N
        /\ \A i, k \in 1..N : Uses(apiKeys[i]) - Uses(apiKeys[k]) <= 1

\* An odd number of calls, at least three: the counts differ.
UnevenCounts ==
    /\ Len(dispatchLog) >= 3
    /\ Uses(apiKeys[1]) = Uses(apiKeys[2]) + 1

\* C5: a request that reaches generateContent takes exactly one credential and
\* calls the upstream at most once; a request whose upstream call failed is
\* answered without another credential and without another call.
OneCredentialPerRequest ==
    \A r \in Slots :
        /\ slots[r].taken <= 1
        /\ slots[r].calls <= slots[r].taken
        /\ slots[r].pc = "awaiting" => slots[r].taken = 1 /\ slots[r].calls = 1
        /\ slots[r].result = "api-error" =>
                /\ slots[r].pc = "responded"
                /\ slots[r].taken = 1
        /\ slots[r].result \in {"upload-rejected", "prompt-rejected"} =>
                slots[r].taken = 0 /\ slots[r].calls = 0

\* A call failed on its credential or on the quota and the request was answered.
FailedWithoutRetry ==
    \E r \in Slots :
        /\ slots[r].pc = "responded"
        /\ slots[r].result = "api-error"
        /\ slots[r].status \in {401, 429}
        /\ slots[r].taken = 1
        /\ slots[r].calls = 1

----
\* The classifier claims, checked under ClassifierSpec.

OutcomeTypes == {"image", "text", "empty", "error"}

Classified == outcome.type # "none"

Blocked == apiResponse.defined /\ apiResponse.blockReason \notin {Undefined, Null, ""}

\* Candidate 0 is there to be inspected.
HasCandidate0 ==
    /\ apiResponse.defined
    /\ apiResponse.candidates.defined
    /\ apiResponse.candidates.length > 0
    /\ ~apiResponse.candidates.items[1].isNull

Candidate0 == apiResponse.candidates.items[1]

Parts0 == Candidate0.content.parts.items

\* Rules 1 to 4 do not decide: candidate 0 has a normal or absent finish reason
\* and at least one part.
ScanReached ==
    /\ HasCandidate0
    /\ ~Blocked
    /\ Candidate0.finishReason \in {Undefined, "", "STOP"}
    /\ Candidate0.content.defined
    /\ Candidate0.content.parts.defined
    /\ Len(Parts0) > 0

IsImagePart(p) ==
    /\ ~p.isNull
    /\ p.inlineData.defined
    /\ p.inlineData.mimeType # Undefined
    /\ StartsWith(p.inlineData.mimeType, "image/")

IsTextPart(p) == ~p.isNull /\ ~p.inlineData.defined /\ p.text # Undefined

IsMalformedPart(p) ==
    p.isNull \/ (p.inlineData.defined /\ p.inlineData.mimeType = Undefined)

ImageIndices == {i \in 1..Len(Parts0) : IsImagePart(Parts0[i])}

TextIndices == {i \in 1..Len(Parts0) : IsTextPart(Parts0[i])}

\* The contents of the text parts, in order, nothing between them.
RECURSIVE Concatenation(_)
Concatenation(parts) ==
    IF parts = <<>> THEN ""
    ELSE (IF IsTextPart(Head(parts)) THEN Head(parts).text ELSE "")
         \o Concatenation(Tail(parts))

FailurePrefix == "Failed to process the API response: "

\* The shapes whose reading throws a TypeError.
ReadingThrows ==
    \/ /\ apiResponse.defined /\ ~Blocked
       /\ apiResponse.candidates.defined
       /\ apiResponse.candidates.length > 0
       /\ apiResponse.candidates.items[1].isNull
    \/ /\ ScanReached
       /\ \E i \in 1..Len(Parts0) : IsMalformedPart(Parts0[i])

\* C6: processResponse returns, for every raw result, one outcome of type
\* image, text, empty or error; a null candidate 0, a null part or an
\* inlineData without mimeType, whose reading throws, gives the error outcome
\* 'Failed to process the API response: <cause>'.
ClassifierTotal ==
    Classified =>
        /\ outcome.type \in OutcomeTypes
        /\ ReadingThrows => (/\ outcome.type = "error"
                             /\ StartsWith(outcome.data.error, FailurePrefix)
                             /\ Len(outcome.data.error) > Len(FailurePrefix))

\* An inlineData without mimeType, after an image part, was classified.
MalformedClassified ==
    /\ Classified
    /\ ScanReached
    /\ Len(Parts0) >= 2
    /\ IsImagePart(Parts0[1])
    /\ Parts0[2].inlineData.defined /\ Parts0[2].inlineData.mimeType = Undefined
    /\ outcome.type = "error"
    /\ outcome.data.error =
           FailurePrefix \o "Cannot read properties of undefined (reading 'startsWith')"

\* C7: when candidate 0 has finish reason SAFETY the outcome is an error,
\* whatever parts it carries and whatever candidates follow.
SafetyStopIsError ==
    Classified /\ HasCandidate0 /\ Candidate0.finishReason = "SAFETY"
        => outcome.type = "error"

\* A safety stop with text and image parts, followed by another candidate.
SafetyStopWithContent ==
    /\ Classified
    /\ HasCandidate0
    /\ ~Blocked
    /\ Candidate0.finishReason = "SAFETY"
    /\ ImageIndices # {} /\ TextIndices # {}
    /\ Len(apiResponse.candidates.items) > 1
    /\ outcome.type = "error"
    /\ outcome.data.error = "Content generation stopped due to safety concerns."

\* The case of C8.
WellFormedImageParts ==
    /\ Classified
    /\ ScanReached
    /\ \A i \in 1..Len(Parts0) : IsTextPart(Parts0[i]) \/ IsImagePart(Parts0[i])
    /\ ImageIndices # {}

\* C8: when the scan is reached over parts that are each a text part or an
\* image part, and at least one is an image part, the outcome is image and its
\* caption is the concatenation of all text parts in encounter order (absent
\* when there is no text part).
ImagePrecedence ==
    WellFormedImageParts =>
        /\ outcome.type = "image"
        /\ outcome.data.text = IF TextIndices = {} THEN Null ELSE Concatenation(Parts0)

\* C9: with several image parts, the image outcome's data URI is built from
\* the MIME type and the bytes of the last image part, both from that part.
LastImageWins ==
    Classified /\ ScanReached /\ Cardinality(ImageIndices) >= 2 /\ outcome.type = "image"
        => LET last == CHOOSE i \in ImageIndices : \A k \in ImageIndices : k <= i
           IN  outcome.data.imageUrl =
                   "data:" \o Parts0[last].inlineData.mimeType
                           \o ";base64," \o Parts0[last].inlineData.data

\* Two image parts of different type and bytes; the outcome is an image.
TwoImagesClassified ==
    /\ Classified
    /\ ScanReached
    /\ outcome.type = "image"
    /\ \E i, k \in ImageIndices :
          /\ i < k
          /\ Parts0[i].inlineData.mimeType # Parts0[k].inlineData.mimeType
          /\ Parts0[i].inlineData.data # Parts0[k].inlineData.data
          /\ Parts0[i].inlineData.data # ""

\* C10: when the scan is reached and candidate 0 has no image part, the text
\* outcome's text is the contents of all text parts in encounter order with
\* nothing between them.
TextIsConcatenation ==
    Classified /\ ScanReached /\ ImageIndices = {} /\ outcome.type = "text"
        => outcome.data.text = Concatenation(Parts0)

\* Two text parts "A" and "B" around a part that is no text gave the text "AB".
TwoTextsClassified ==
    /\ Classified
    /\ ScanReached
    /\ ImageIndices = {}
    /\ Len(Parts0) = 3
    /\ Parts0[1] = TextPart("A") /\ Parts0[3] = TextPart("B")
    /\ ~IsTextPart(Parts0[2])
    /\ outcome.type = "text"
    /\ outcome.data.text = "AB"

----
\* The presenter claims, checked under ClassifierSpec.

Presented == response # NoHttpResponse

\* The safety ratings of candidate 0, if there are any.
Ratings0 == IF HasCandidate0 THEN Candidate0.safetyRatings ELSE Undefined

\* C11: when the upstream result carries a top-level block reason, the outcome
\* is an error whose message contains 'blocked' and the reason, whatever
\* candidates, finish reasons and parts the result holds, and the response is
\* HTTP 400 whose details.safetyRatings are the safety ratings of candidate 0
\* (details has no safetyRatings when candidate 0 has none).
BlockReasonWins ==
    Classified /\ Blocked =>
        /\ outcome.type = "error"
        /\ Includes(outcome.data.error, "blocked")
        /\ Includes(outcome.data.error, apiResponse.blockReason)
        /\ Presented =>
              /\ response.status = 400
              /\ response.body.error = outcome.data.error
              /\ IF Ratings0 # Undefined
                 THEN /\ "safetyRatings" \in DOMAIN response.body.details
                      /\ response.body.details.safetyRatings = Ratings0
                 ELSE "safetyRatings" \notin DOMAIN response.body.details

\* A blocked result whose candidate 0 ended normally with text and image parts
\* and safety ratings was answered with 400 and the ratings.
BlockedWithContent ==
    /\ Presented
    /\ Blocked
    /\ HasCandidate0
    /\ Candidate0.finishReason = "STOP"
    /\ ImageIndices # {} /\ TextIndices # {}
    /\ Ratings0 = "ratings"
    /\ response.status = 400
    /\ response.body.details.safetyRatings = "ratings"

\* C12: image, text and empty outcomes are answered with HTTP 200; an error
\* outcome is answered with 400 exactly when its message contains 'blocked',
\* whatever the case of the letters, and with 500 otherwise; the safety stop
\* and the recitation stop are answered with 500.
PresenterStatus ==
    Presented =>
        /\ outcome.type \in OutcomeTypes
        /\ outcome.type \in {"image", "text", "empty"} => response.status = 200
        /\ outcome.type = "error" =>
              /\ response.status \in {400, 500}
              /\ response.status = 400
                    <=> Includes(toLowerCase(outcome.data.error), "blocked")
        /\ (HasCandidate0 /\ ~Blocked /\ Candidate0.finishReason \in {"SAFETY", "RECITATION"})
              => response.status = 500

\* A recitation stop was answered with 500.
RecitationStopPresented ==
    /\ Presented
    /\ HasCandidate0 /\ ~Blocked
    /\ Candidate0.finishReason = "RECITATION"
    /\ outcome.type = "error"
    /\ response.status = 500

\* C13: the HTTP 200 body of an image outcome has exactly the fields imageUrl
\* and text, text being the caption, or null when there is no caption or the
\* caption is empty; the body of a text outcome has exactly the field text;
\* in every environment mode.
BodyFieldsExact ==
    Presented =>
        /\ outcome.type = "image" =>
              /\ response.status = 200
              /\ DOMAIN response.body = {"imageUrl", "text"}
              /\ response.body.imageUrl = outcome.data.imageUrl
              /\ response.body.text =
                     IF outcome.data.text \in {Null, ""} THEN Null ELSE outcome.data.text
        /\ outcome.type = "text" =>
              /\ response.status = 200
              /\ DOMAIN response.body = {"text"}
              /\ response.body.text = outcome.data.text

----
\* The claims on the failures of the upstream call and on the request path,
\* checked under RequestSpec and InvokerSpec.

\* The request reached the upstream and the call failed.
UpstreamFailed ==
    /\ exchange.pc = "responded"
    /\ exchange.result = "api-error"
    /\ exchange.calls = 1

\* The kinds of failure in the order of the claim, as statuses.
FailureStatus(error) ==
    IF Includes(error.message, "response was blocked") THEN 400
    ELSE IF Includes(error.message, "API key not valid") \/ error.status = "PERMISSION_DENIED"
    THEN 401
    ELSE IF Includes(error.message, "Quota exceeded") THEN 429
    ELSE 502

NoRawExceptionEscapes ==
    (invocation.pc = "rejected" /\ invocation.upstreamCalls = 1) =>
        /\ invocation.error.name = "ApiError"
        /\ invocation.error.statusCode \in {400, 401, 429, 502}
        /\ invocation.error.details # NoDetails

\* An image is supplied and its MIME type does not begin with 'image/'.
BadMimeSupplied ==
    /\ invocation.imageBuffer # Null
    /\ invocation.imageMimeType # Null
    /\ ~StartsWith(invocation.imageMimeType, "image/")

\* C16: when an image is supplied whose MIME type does not begin with
\* 'image/', generateContent rejects with the ApiError of status 400 and
\* message 'Invalid image MIME type provided.', and the upstream is not called.
InvalidMimeRejected ==
    (invocation.pc \notin {"none", "called"} /\ BadMimeSupplied) =>
        /\ invocation.pc = "rejected"
        /\ invocation.upstreamCalls = 0
        /\ invocation.error.name = "ApiError"
        /\ invocation.error.statusCode = 400
        /\ invocation.error.message = "Invalid image MIME type provided."

\* The prompt is a string with a character that is no space.
NonBlank(prompt) ==
    /\ prompt \notin {Undefined, Null, ANumber}
    /\ \E i \in 1..Len(prompt) : SubSeq(prompt, i, i) # " "

\* The upstream result with the single text part t.
OneTextPart(t) ==
    Response(TRUE, Undefined, TRUE,
             <<Candidate(FALSE, "STOP", Undefined, TRUE, TRUE, <<TextPart(t)>>)>>)

\* C17: a request with a non-blank prompt and no image sends the trimmed
\* prompt upstream as a single text part, in exactly one upstream call, and
\* when the upstream returns one text part T the response is HTTP 200 with
\* the body {text: T}.
TextScenario ==
    (exchange.pc \in {"awaiting", "responded"}
         /\ NonBlank(exchange.prompt) /\ ~exchange.file.present) =>
        /\ exchange.messageParts = <<[text |-> Trim(exchange.prompt)]>>
        /\ exchange.prompt \in {" Add sunglasses ", "Add sunglasses"}
              => exchange.messageParts = <<[text |-> "Add sunglasses"]>>
        /\ exchange.taken = 1
        /\ exchange.calls = 1
        /\ (exchange.pc = "responded" /\ exchange.raw = OneTextPart("A")) =>
              /\ exchange.status = 200
              /\ exchange.body = [text |-> "A"]

\* The upload collaborator has nothing to refuse in the file.
FileAcceptable(file) ==
    \/ ~file.present
    \/ /\ file.fieldname = "image"
       /\ StartsWith(file.mimetype, "image/")
       /\ file.size <= 10 * MiB

\* C18: a request whose prompt is missing, no string, empty or whitespace
\* only is answered with HTTP 400 and never reaches the core: no credential is
\* taken, the upstream is not called and the cursor is where it was; when the
\* upload collaborator let the request pass, the error is 'Text prompt
\* (prompt) is required and cannot be empty.'.
BlankPromptRejected ==
    (exchange.pc \notin {"none", "received"} /\ ~NonBlank(exchange.prompt)) =>
        /\ exchange.pc = "responded"
        /\ exchange.status = 400
        /\ exchange.taken = 0
        /\ exchange.calls = 0
        /\ exchange.messageParts = <<>>
        /\ nextKeyIndex = exchange.cursorAtArrival
        /\ dispatchLog = <<>>
        /\ FileAcceptable(exchange.file) =>
              exchange.body.error = "Text prompt (prompt) is required and cannot be empty."

\* A whitespace-only prompt, sent with an image, was rejected with the cursor
\* at 1.
WhitespacePromptRejected ==
    /\ exchange.pc = "responded"
    /\ exchange.prompt = "  "
    /\ exchange.file.present /\ FileAcceptable(exchange.file)
    /\ exchange.status = 400
    /\ exchange.body.error = "Text prompt (prompt) is required and cannot be empty."
    /\ exchange.cursorAtArrival = 1
    /\ nextKeyIndex = 1

\* C19: when the upload collaborator rejects the request (a file over 10 MiB,
\* a file that is no image, a file in an unexpected field), the response is
\* HTTP 400 and the controller does not run: no credential is taken, the
\* cursor is where it was and the upstream is not called.
UploadRejectedBeforeCore ==
    (exchange.pc \notin {"none", "received"} /\ ~FileAcceptable(exchange.file)) =>
        /\ exchange.pc = "responded"
        /\ exchange.result = "upload-rejected"
        /\ exchange.status = 400
        /\ exchange.taken = 0
        /\ exchange.calls = 0
        /\ nextKeyIndex = exchange.cursorAtArrival
        /\ dispatchLog = <<>>

\* An image of 12 MiB, sent with a usable prompt, was rejected.
OversizeRejected ==
    /\ exchange.pc = "responded"
    /\ exchange.file.present
    /\ exchange.file.fieldname = "image"
    /\ exchange.file.mimetype = "image/png"
    /\ exchange.file.size = 12 * MiB
    /\ NonBlank(exchange.prompt)
    /\ exchange.status = 400
    /\ exchange.body.error = "File size limit exceeded (max 10MB)."
    /\ dispatchLog = <<>>

----
\* The claim on the timeout, checked under LiveSpec.

\* C20: every upstream call is bounded by the timeout: a request suspended at
\* the upstream call is eventually answered, even when the upstream never
\* answers.
EveryCallAnswered ==
    \A r \in Slots : (slots[r].pc = "awaiting") ~> (slots[r].pc = "responded")

----
\* The claims on what a response discloses, checked under RequestSpec.

\* Two failures of the upstream call that are of the same kind and differ in
\* nothing but the text of their message.
DiffersInMessageOnly(e1, e2) ==
    /\ e1.message # e2.message
    /\ e1.nullish = e2.nullish
    /\ e1.status = e2.status
    /\ e1.response = e2.response
    /\ FailureStatus(e1) = FailureStatus(e2)

\* The response generateContent's failure with error leads to.
FailureResponse(error, env) == errorMiddleware(generateContentCatch(error), env)

\* C21: in production the response to a failed upstream call is the response
\* any failure of the same kind with another message text would have got: the
\* body holds no text of the upstream's message.
ProductionBodiesAgree ==
    UpstreamFailed /\ NODE_ENV = "production" =>
        \A other \in SdkErrors :
            DiffersInMessageOnly(exchange.error, other)
                => FailureResponse(other, NODE_ENV).body = exchange.body

----
\* Further classifier claims, checked under ClassifierSpec.

\* Candidate 0 has a finish reason that is present and not 'STOP'.
StoppedAbnormally ==
    /\ HasCandidate0
    /\ ~Blocked
    /\ Candidate0.finishReason \notin {Undefined, "", "STOP"}

\* Candidate 0 carries parts.
HasParts0 == Candidate0.content.defined /\ Candidate0.content.parts.defined

\* The outcome's message or text holds t.
OutcomeHolds(t) ==
    \E f \in DOMAIN outcome.data \cap {"text", "error"} :
        IsString(outcome.data[f]) /\ Includes(outcome.data[f], t)

\* C22: when candidate 0 stops abnormally while carrying text parts, the
\* outcome of processResponse still holds the text of those parts.
PartialTextKept ==
    Classified /\ StoppedAbnormally /\ HasParts0 /\ TextIndices # {}
        => OutcomeHolds(Concatenation(Parts0))

\* C23: once processResponse has returned the outcome, no step changes it: the
\* controller adds, removes and changes no field of the outcome or of its data.
OutcomeNeverMutated == [][Classified => outcome' = outcome]_vars

\* The result is there and not blocked, and its candidates are absent or of
\* length 0.
NoCandidates ==
    /\ apiResponse.defined
    /\ ~Blocked
    /\ \/ ~apiResponse.candidates.defined
       \/ apiResponse.candidates.length = 0

\* The finish reason the result reports under candidates[0], if any.
ReportedFinishReason ==
    IF /\ apiResponse.candidates.defined
       /\ apiResponse.candidates.items # <<>>
       /\ ~apiResponse.candidates.items[1].isNull
    THEN apiResponse.candidates.items[1].finishReason
    ELSE Undefined

AbnormalStopRule ==
    Classified /\ StoppedAbnormally /\ Candidate0.finishReason # "SAFETY" =>
        IF Candidate0.finishReason = "RECITATION"
        THEN /\ outcome.type = "error"
             /\ outcome.data.error =
                    "Content generation stopped due to potential recitation."
        ELSE /\ outcome.type = "text"
             /\ outcome.data.text =
                    "Generation stopped unexpectedly (" \o Candidate0.finishReason
                        \o "). Partial content might be missing."

\* Candidate 0 stopped for recitation while carrying an image part and the
\* outcome is the recitation error.
RecitationWithImage ==
    /\ Classified
    /\ StoppedAbnormally
    /\ Candidate0.finishReason = "RECITATION"
    /\ HasParts0 /\ ImageIndices # {}
    /\ outcome.type = "error"

\* The result without its candidates 1..n.
FirstCandidateOnly(resp) ==
    IF resp.candidates.defined /\ Len(resp.candidates.items) > 1
    THEN [resp EXCEPT !.candidates.items = <<resp.candidates.items[1]>>,
                      !.candidates.length = 1]
    ELSE resp

\* The outcome the result would get without its candidates 1..n.
OutcomeOfFirstOnly == processResponse(FirstCandidateOnly(apiResponse), NODE_ENV)

\* The result holds candidates after candidate 0.
HasLaterCandidates ==
    /\ apiResponse.defined
    /\ apiResponse.candidates.defined
    /\ Len(apiResponse.candidates.items) > 1

\* C26 as stated: the outcome of a result with candidates 1..n is the outcome
\* of the same result without them.
SameOutcomeWithoutLaterCandidates ==
    Classified /\ ~Presented /\ HasLaterCandidates => outcome = OutcomeOfFirstOnly

\* The outcome without the raw result that the error outcome of a failed
\* classification carries in development mode.
WithoutRawResponse(o) ==
    [o EXCEPT !.data = [f \in DOMAIN o.data \ {"rawResponse"} |-> o.data[f]]]

\* Candidate 0 is inspected and has no parts.
NoParts0 ==
    /\ HasCandidate0
    /\ ~Blocked
    /\ Candidate0.finishReason \in {Undefined, "", "STOP"}
    /\ \/ ~Candidate0.content.defined
       \/ ~Candidate0.content.parts.defined
       \/ Len(Parts0) = 0

\* C26, amended: apart from data.rawResponse the outcome of a result with
\* candidates 1..n is the outcome of the same result without them, and a result whose
\* candidate 0 has no parts is classified empty whatever the later candidates
\* hold.
SingleCandidatePolicy ==
    Classified /\ ~Presented =>
        /\ HasLaterCandidates =>
              WithoutRawResponse(outcome) = WithoutRawResponse(OutcomeOfFirstOnly)
        /\ NoParts0 => outcome.type = "empty"

\* Candidate 0 has no parts, candidate 1 holds an image, and the outcome is
\* the empty one.
LaterImageIgnored ==
    /\ Classified
    /\ NoParts0
    /\ Len(apiResponse.candidates.items) > 1
    /\ ~apiResponse.candidates.items[2].isNull
    /\ apiResponse.candidates.items[2].content.parts.items
           = <<InlinePart("image/jpeg", "Y")>>
    /\ outcome.type = "empty"
    /\ outcome.data.text = "The model returned a candidate but no content parts."

\* The rule of the decision list that decides the result, by the order of the
\* claim: 1 null result, 2 block reason, 3 no candidates, 4 abnormal finish
\* reason of candidate 0, 5 missing or empty parts, 6 the scan of the parts.
DecidingRule ==
    IF ~apiResponse.defined THEN 1
    ELSE IF Blocked THEN 2
    ELSE IF NoCandidates THEN 3
    ELSE IF StoppedAbnormally THEN 4
    ELSE IF NoParts0 THEN 5
    ELSE 6

\* The rule whose outcome the outcome is, by its type and message.
RuleOfOutcome ==
    IF outcome.type = "error"
    THEN IF outcome.data.error = "Received no response object from API." THEN 1
         ELSE IF StartsWith(outcome.data.error, "Content generation blocked due to: ") THEN 2
         ELSE IF outcome.data.error \in
                     {"Content generation stopped due to safety concerns.",
                      "Content generation stopped due to potential recitation."} THEN 4
         ELSE 6
    ELSE IF outcome.type = "text"
    THEN IF StartsWith(outcome.data.text, "Generation stopped due to: ") THEN 3
         ELSE IF StartsWith(outcome.data.text, "Generation stopped unexpectedly (") THEN 4
         ELSE 6
    ELSE IF outcome.type = "empty"
    THEN IF outcome.data.text = "The model did not return any content." THEN 3
         ELSE IF outcome.data.text = "The model returned a candidate but no content parts."
         THEN 5
         ELSE 6
    ELSE 6

\* Candidate 0 is null: reading it throws.
NullCandidate0 ==
    /\ apiResponse.defined
    /\ apiResponse.candidates.defined
    /\ apiResponse.candidates.length > 0
    /\ apiResponse.candidates.items[1].isNull

\* C27: the outcome is the outcome of the first rule that matches, in the
\* order null result, block reason, no candidates, abnormal finish reason of
\* candidate 0, missing or empty parts, scan of the parts; a candidate with an
\* abnormal finish reason and no parts gets the finish-reason outcome, one
\* with a normal or absent finish reason and no parts the empty outcome 'The
\* model returned a candidate but no content parts.'.
FirstMatchWins ==
    Classified /\ ~(~Blocked /\ NullCandidate0) => RuleOfOutcome = DecidingRule

\* Candidate 0 stopped at the length limit and has no parts: the outcome is
\* the one of the finish reason.
StoppedWithoutParts ==
    /\ Classified
    /\ StoppedAbnormally
    /\ Candidate0.finishReason = "MAX_TOKENS"
    /\ ~Candidate0.content.parts.defined
    /\ outcome.type = "text"
    /\ StartsWith(outcome.data.text, "Generation stopped unexpectedly (MAX_TOKENS)")

\* The scan is reached and reading the parts does not throw.
ScanCompleted ==
    /\ ScanReached
    /\ \A i \in 1..Len(Parts0) : ~IsMalformedPart(Parts0[i])

\* C28: after the scan the outcome is image if any part is binary with a MIME
\* type starting with 'image/', whatever its bytes; otherwise text if the
\* accumulated text is non-empty; otherwise the empty outcome 'Model response
\* did not contain usable text or image data.'.
ScanDecision ==
    Classified /\ ScanCompleted =>
        IF ImageIndices # {} THEN outcome.type = "image"
        ELSE IF Concatenation(Parts0) # ""
        THEN outcome.type = "text" /\ outcome.data.text = Concatenation(Parts0)
        ELSE /\ outcome.type = "empty"
             /\ outcome.data.text =
                    "Model response did not contain usable text or image data."

----
\* The claim on the start of the process, checked under StartupSpec.

\* Neither environment variable holds a key.
NoCredential ==
    /\ ~Truthy(server.GOOGLE_AI_API_KEY1)
    /\ ~Truthy(server.GOOGLE_AI_API_KEY2)

\* C29: the process ends at its start only when no credential is configured;
\* a process that serves has a pool that is not empty, and every call was
\* given a credential that is defined.
StartsWithOneCredential ==
    /\ server.pc \in {"crashed", "exited"} => NoCredential
    /\ server.pc = "listening" => server.apiKeys # <<>>
    /\ \A i \in 1..Len(dispatchLog) : Truthy(dispatchLog[i].key)

----
\* The claim on the number of responses, checked under RequestSpec.

\* C30: a request that has been answered got exactly one HTTP response: the
\* controller called res.json once or an error was passed to next once, never
\* both and never neither; before that nothing was sent.  The controller ends
\* with exactly one of the two for every outcome type, an unexpected one
\* included.
ExactlyOneResponse ==
    /\ exchange.pc = "responded" =>
          /\ exchange.responses = 1
          /\ exchange.sends + exchange.nexts = 1
    /\ exchange.pc # "responded" => exchange.responses = 0
    /\ \A t \in OutcomeTypes \cup {"unexpected"} :
          LET end == controllerEnd([type |-> t])
          IN  end.json + end.next = 1

\* An error outcome was sent by the controller, and nothing was passed to
\* next.
ErrorOutcomeAnsweredOnce ==
    /\ exchange.pc = "responded"
    /\ exchange.result = "error"
    /\ exchange.calls = 1
    /\ exchange.sends = 1
    /\ exchange.nexts = 0
    /\ exchange.status \in {400, 500}

====
